---- MODULE Spec2Model ----
(***************************************************************************)
(* Download job tracking of the repository's Express servers.              *)
(*                                                                         *)
(* Part I  : the modular API (routes/api.js, services/downloader.js,       *)
(*           services/progressTracker.js): the mock DownloaderService, the *)
(*           ProgressTracker and the routes that drive them.               *)
(* Part II : the streaming server (server.js): downloadStatus, the         *)
(*           DownloaderService with ytdl / demo streams, SSE clients.      *)
(* Part III: the yt-dlp server (ctonew/server.js,                           *)
(*           ctonew/services/downloader.js): progressStore, the child      *)
(*           process of each download and the promise around it.           *)
(* Part IV : the sweeps over a map of download records                     *)
(*           (DownloaderService.cleanup, cleanupOldDownloads,              *)
(*           cleanupOldClients), with a clock.                             *)
(*                                                                         *)
(* Node runs every callback to completion (with the promise continuations  *)
(* it triggers) before the next timer or I/O event, so one action is one   *)
(* macrotask: a request handler, a timer callback or a stream event,       *)
(* together with the microtasks it schedules.                              *)
(***************************************************************************)
EXTENDS Integers, Sequences, FiniteSets, TLC

\* ------------------------------------------------------------------ bounds
\* Number of download requests sent to the modular API (one job id each).
MaxReqs == 2
\* Number of progress chunks of a simulated download (the code uses 100).
Chunks == 3
\* Number of SSE connections opened against the modular API.
MaxConns == 1
\* Number of download requests sent to the streaming server.
MaxSrvReqs == 1
\* Number of 'progress' events of a ytdl stream before it ends.
SrvChunks == 2
\* Number of SSE connections opened against the streaming server.
MaxSrvConns == 1
\* Download requests sent to the yt-dlp server of src/ctonew.
MaxCtoReqs == 2
\* Clock steps of the yt-dlp server; requests arrive before the last one.
MaxCtoNow == 2
\* SSE connections and download requests of the modular API when
\* subscribers are studied.
MaxSubscribers == 2
MaxSubReqs == 1
\* Records, clock steps and retention windows of the sweeps.
MaxSweepIds == 2
MaxSweepNow == 3
MaxSweepAge == 2
\* Frames counted per SSE connection of the streaming server (saturating).
MaxFrames == 2
\* Heartbeat / keep-alive frames counted per SSE connection (saturating).
MaxBeats == 1

\* cleanupOldClients: maxAge = 5 * 60 * 1000 ms, one unit of the sweeps' clock
TrackerMaxAge == 1

\* createMockStream: the demo interval adds 10 per tick and completes at 100
MockStep == 10
MockDone == 100

Reqs == 1..MaxReqs
Ids == 1..MaxReqs
Conns == 1..MaxConns
SrvReqs == 1..MaxSrvReqs
SrvIds == 1..MaxSrvReqs
SrvConns == 1..MaxSrvConns
Subscribers == 1..MaxSubscribers
SubReqs == 1..MaxSubReqs
CtoReqs == 1..MaxCtoReqs
CtoIds == 0..(MaxCtoNow - 1)
SweepIds == 1..MaxSweepIds
SweepAges == 1..MaxSweepAge

\* ------------------------------------------------------------ Part I state
VARIABLES
    pc,               \* per request: where downloadVideo of that request stands
    activeDownloads,  \* DownloaderService.activeDownloads: id -> status record
    progressCallbacks,\* DownloaderService.progressCallbacks: ids with a callback
    downloaded,       \* simulateDownload's closure variable `downloaded`, in chunks
    timeoutTimer,     \* the route's 5 minute timer: unset / armed / fired
    raceWinner,       \* what settled Promise.race: pending / download / timeout
    response,         \* the HTTP response of the download request
    progressData,     \* ProgressTracker.progressData: id -> last snapshot
    sseClients,       \* ProgressTracker.sseClients: id -> connection
    conn,             \* the SSE connections (res objects) and what was written
    trackerTimers,    \* pending delayed deletions of ProgressTracker
    cancelAcked,      \* history: ids for which cancelDownload returned true
    onProgressCalls,  \* history: number of onProgress invocations per id
    lastCancel        \* history: per id the last two cancel responses (code and
                      \* status left behind) given after the id was returned

apiVars == <<pc, activeDownloads, progressCallbacks, downloaded, timeoutTimer,
             raceWinner, response, progressData, sseClients, conn,
             trackerTimers, cancelAcked, onProgressCalls, lastCancel>>

\* ----------------------------------------------------------- Part II state
VARIABLES
    srvPc,          \* per request: where POST /api/download/video stands
    downloadStatus, \* the module-level Map downloadStatus: id -> record
    srvActive,      \* downloader.activeDownloads: ids with a {stream} entry
    stream,         \* per request: the stream returned by downloadVideo
    reqClosed,      \* per request: the client's connection has closed
    srvResponse,    \* per request: status code sent (0: none, 200: streaming)
    srvSse,         \* the module-level Map sseClients: id -> connection
    srvConn,        \* the SSE connections of server.js
    srvCrashed,     \* an exception escaped an event handler
    cancelAccepted, \* history: ids for which cancelDownload found a record
    lateUpdate,     \* history: the last updateStatus applied to a terminal record
    disconnected,   \* history: requests whose 'close' handler has run
    cancelledInitial \* history: ids whose cancel request was answered with
                    \* success while the record had status initializing

srvVars == <<srvPc, downloadStatus, srvActive, stream, reqClosed, srvResponse,
             srvSse, srvConn, srvCrashed, cancelAccepted, lateUpdate,
             disconnected, cancelledInitial>>

\* ---------------------------------------------------------- Part III state
\* src/ctonew: the server that runs yt-dlp as a child process and keeps the
\* jobs in progressStore.
VARIABLES
    ctoNow,        \* Date.now(), in clock steps
    ctoJob,        \* per request: the child process and the promise of
                   \* downloader.downloadVideo / downloadAudio
    progressStore, \* the module-level Map progressStore: id -> record
    ctoResponse,   \* per request: the HTTP response of the download request
    ctoTimers,     \* pending 60 s deletions scheduled by GET /api/progress/:id
    ctoWrites      \* history: per request the terminal writes of its then /
                   \* catch callbacks and whether onProgress wrote after them

ctoVars == <<ctoNow, ctoJob, progressStore, ctoResponse, ctoTimers, ctoWrites>>

\* ----------------------------------------------------------- Part IV state
\* The sweeps over a map of download records: DownloaderService.cleanup,
\* cleanupOldDownloads and the progress-data loop of cleanupOldClients.
VARIABLES
    swNow,      \* Date.now(), in units of 5 minutes
    swMap,      \* the swept map: id -> record with status and createdAt
    swEnded     \* history: id -> the time its record became terminal
                \* (-1: not terminal yet, -2: never created)

swVars == <<swNow, swMap, swEnded>>

\* ------------------------------------------- status endpoint of Part I
VARIABLES
    statusResponse  \* the last answer of GET /progress/:id/status

statusVars == <<statusResponse>>

vars == <<apiVars, srvVars, ctoVars, swVars, statusVars>>

\* what the handlers of each part leave alone
notApiVars == <<srvVars, ctoVars, swVars, statusVars>>
notSrvVars == <<apiVars, ctoVars, swVars, statusVars>>
notCtoVars == <<apiVars, srvVars, swVars, statusVars>>
notSwVars == <<apiVars, srvVars, ctoVars, statusVars>>

\* ---------------------------------------------------------------- helpers
\* An :id that is not a UUID; the ids the service hands out are UUIDs.
BadId == 0
StatusIds == Ids \cup {BadId}

NoStatusResponse == [id |-> BadId, code |-> 0, body |-> <<>>]

Terminal == {"completed", "failed", "cancelled"}

\* map.delete(k)
MapDelete(m, k) == [x \in DOMAIN m \ {k} |-> m[x]]

\* map.set(k, v)
MapSet(m, k, v) == [x \in DOMAIN m \cup {k} |-> IF x = k THEN v ELSE m[x]]

EmptyMap == [x \in {} |-> 0]

\* Math.round((downloaded / totalSize) * 100) with downloaded counted in chunks
RoundPercent(d) == (200 * d + Chunks) \div (2 * Chunks)

NoResponse == [code |-> 0, downloadId |-> 0, jobStatus |-> "none", sent |-> 0]

\* the stored status of id, "none" when there is no record
StatusOf(id) ==
    IF id \in DOMAIN activeDownloads THEN activeDownloads[id].status ELSE "none"

\* ------------------------------------------------- SSE responses (res)
FreeConn == [state |-> "free", id |-> 0, frames |-> <<>>, lateWrite |-> FALSE,
             heartbeat |-> FALSE, beats |-> 0, snapshot |-> FALSE]

ConnectedFrame == [type |-> "connected", status |-> "", progress |-> 0]
ProgressFrame(data) ==
    [type |-> "progress", status |-> data.status, progress |-> data.progress]
ErrorFrame == [type |-> "error", status |-> "", progress |-> 0]

\* res.write(frame): a write to a response that was ended is not delivered
ResWrite(cn, frame) ==
    IF cn.state = "open"
    THEN [cn EXCEPT !.frames = Append(@, frame)]
    ELSE [cn EXCEPT !.lateWrite = TRUE]

\* res.end()
ResEnd(cn) == IF cn.state = "open" THEN [cn EXCEPT !.state = "ended"] ELSE cn

\* ------------------------------------------------------- ProgressTracker
\* The tracker's fields as one value, so that its methods are operators.
Tracker ==
    [progressData |-> progressData, sseClients |-> sseClients,
     conn |-> conn, trackerTimers |-> trackerTimers]

\* ProgressTracker.updateProgress(downloadId, progressData)
updateProgress(T, downloadId, data) ==
    LET T1 == [T EXCEPT !.progressData = MapSet(@, downloadId, data)]
        T2 == IF downloadId \in DOMAIN T.sseClients
              THEN [T1 EXCEPT !.conn[T.sseClients[downloadId]] =
                                  ResWrite(@, ProgressFrame(data))]
              ELSE T1
    IN  IF data.status \in Terminal
        THEN [T2 EXCEPT !.trackerTimers =
                            @ \cup {[id |-> downloadId, kind |-> "progress"]}]
        ELSE T2

\* ProgressTracker.notifyCancellation(downloadId)
notifyCancellation(T, downloadId) ==
    IF downloadId \in DOMAIN T.sseClients
    THEN [T EXCEPT !.conn[T.sseClients[downloadId]] =
                       ResEnd(ResWrite(@, ErrorFrame)),
                   !.trackerTimers =
                       @ \cup {[id |-> downloadId, kind |-> "client"]}]
    ELSE T

\* ProgressTracker.removeSSEClient(clientId)
removeSSEClient(T, clientId) == [T EXCEPT !.sseClients = MapDelete(@, clientId)]

SetTracker(T) ==
    /\ progressData' = T.progressData
    /\ sseClients' = T.sseClients
    /\ conn' = T.conn
    /\ trackerTimers' = T.trackerTimers

\* ---------------------------------------------------- DownloaderService
\* The record stored by downloadVideo before simulateDownload starts.
NewDownload ==
    [status |-> "downloading", progress |-> 0, downloaded_bytes |-> 0,
     error |-> ""]

\* DownloaderService.cancelDownload: the new map and the returned boolean
cancelDownload(ad, downloadId) ==
    IF downloadId \in DOMAIN ad /\ ad[downloadId].status = "downloading"
    THEN [map |-> [ad EXCEPT ![downloadId].status = "cancelled"], ok |-> TRUE]
    ELSE [map |-> ad, ok |-> FALSE]

\* DownloaderService.getProgress: <<copy of the record>>, or <<>> for null
getProgress(ad, downloadId) ==
    IF downloadId \in DOMAIN ad THEN <<ad[downloadId]>> ELSE <<>>

\* simulateDownload.updateProgress, its writes to the status record
TickWrite(st, d) ==
    [st EXCEPT !.downloaded_bytes = d, !.progress = RoundPercent(d)]

\* downloadVideo after simulateDownload resolved
MarkCompleted(st) == [st EXCEPT !.status = "completed", !.progress = 100]

\* downloadVideo's catch block
MarkFailed(st, message) == [st EXCEPT !.status = "failed", !.error = message]

\* ------------------------------------------- Part II: server.js records
SrvTerminal == {"completed", "error", "cancelled"}

\* A record of downloadStatus. A JavaScript object may lack any field:
\* status "absent", progress -1, error "" and the flags FALSE say so.
EmptyRec ==
    [status |-> "absent", progress |-> -1, error |-> "", filename |-> FALSE,
     startTime |-> FALSE, id |-> FALSE]

\* { ...currentStatus, ...updates }: a field of updates wins when present
Merge(cur, upd) ==
    [status |-> IF upd.status # "absent" THEN upd.status ELSE cur.status,
     progress |-> IF upd.progress # -1 THEN upd.progress ELSE cur.progress,
     error |-> IF upd.error # "" THEN upd.error ELSE cur.error,
     filename |-> upd.filename \/ cur.filename,
     startTime |-> upd.startTime \/ cur.startTime,
     id |-> upd.id \/ cur.id]

\* DownloaderService.updateStatus(downloadId, updates) of server.js
updateStatus(ds, downloadId, updates) ==
    LET currentStatus == IF downloadId \in DOMAIN ds THEN ds[downloadId]
                                                     ELSE EmptyRec
    IN  MapSet(ds, downloadId, Merge(currentStatus, updates))

\* The record POST /api/download/video stores before it starts the download
InitialRec == [EmptyRec EXCEPT !.status = "initializing", !.id = TRUE,
                               !.startTime = TRUE]

\* A mistaken completion: the status alone, progress left as reported.
CompletedStatusOnly == [EmptyRec EXCEPT !.status = "completed"]

\* The update of the 'end' handlers: { status: 'completed', progress: 100 }
CompletedUpdate == [EmptyRec EXCEPT !.status = "completed", !.progress = 100]

NoStream == [kind |-> "none", state |-> "none", d |-> 0, known |-> FALSE,
             interval |-> FALSE, mockProgress |-> 0]

\* stream.destroy(): a live stream emits no further events
Destroy(st) == IF st.state = "live" THEN [st EXCEPT !.state = "destroyed"] ELSE st

FreeSrvConn == [state |-> "free", id |-> 0, first |-> EmptyRec,
                afterCancel |-> FALSE, cancelFrames |-> 0,
                keepAlive |-> FALSE, beats |-> 0]

\* The state DownloaderService works on, as one value.
Srv ==
    [ds |-> downloadStatus, active |-> srvActive, stream |-> stream,
     late |-> lateUpdate, accepted |-> cancelAccepted]

\* updateStatus on the server state, remembering an update that reached a
\* record whose status was terminal
UpdateStatusH(S, downloadId, updates) ==
    LET ds2 == updateStatus(S.ds, downloadId, updates) IN
    [S EXCEPT !.ds = ds2,
              !.late = IF downloadId \in DOMAIN S.ds
                           /\ S.ds[downloadId].status \in SrvTerminal
                        THEN <<[id |-> downloadId, before |-> S.ds[downloadId],
                                after |-> ds2[downloadId]]>>
                        ELSE @]

\* A cancelDownload that forgets stream.destroy(): the record and the
\* activeDownloads entry are deleted while the stream keeps emitting.
srvCancelKeepsStream(S, downloadId) ==
    IF downloadId \in DOMAIN S.ds
    THEN LET S1 == UpdateStatusH(S, downloadId,
                                 [EmptyRec EXCEPT !.status = "cancelled"])
         IN  [S1 EXCEPT !.active = @ \ {downloadId},
                        !.ds = MapDelete(@, downloadId),
                        !.accepted = @ \cup {downloadId}]
    ELSE S

\* DownloaderService.cancelDownload(downloadId) of server.js
srvCancelDownload(S, downloadId) ==
    IF downloadId \in DOMAIN S.ds
    THEN LET S1 == UpdateStatusH(S, downloadId,
                                 [EmptyRec EXCEPT !.status = "cancelled"])
             S2 == IF downloadId \in S1.active
                   THEN [S1 EXCEPT !.stream[downloadId] = Destroy(@)]
                   ELSE S1
         IN  [S2 EXCEPT !.active = @ \ {downloadId},
                        !.ds = MapDelete(@, downloadId),
                        !.accepted = @ \cup {downloadId}]
    ELSE S

SetSrv(S) ==
    /\ downloadStatus' = S.ds
    /\ srvActive' = S.active
    /\ stream' = S.stream
    /\ lateUpdate' = S.late
    /\ cancelAccepted' = S.accepted

\* Math.round((downloadedBytes / totalBytes) * 100), or 0 when totalBytes is 0
StreamPercent(d, known) ==
    IF known THEN (200 * d + SrvChunks) \div (2 * SrvChunks) ELSE 0

\* ------------------------------------------- Part III: records and promise
\* A request before it is handled: no child process, no promise.
NoJob == [state |-> "none", id |-> -1, percent |-> -1, errorPending |-> FALSE,
          closePending |-> FALSE, promise |-> "none"]

\* The percentages yt-dlp prints; NoPercent: a line that matches speed, ETA or
\* [download] but carries no percentage.
NoPercent == -1
CtoPercents == {0, 50, 100}

\* lastProgress = { ...lastProgress, ...progress }, for the percent field
MergePercent(last, p) == IF p # NoPercent THEN p ELSE last

\* progress.percent || 0
OrZero(p) == IF p = NoPercent THEN 0 ELSE p

StartingRec == [progress |-> 0, status |-> "starting"]
ProgressRec(lastProgress) == [progress |-> OrZero(lastProgress), status |-> "downloading"]
CompletedRec == [progress |-> 100, status |-> "completed"]
ErrorRec == [progress |-> 0, status |-> "error"]

CtoTerminal == {"completed", "error"}

\* A mistaken promise: every resolve / reject runs the callbacks again.
ctoSettleEvery(J, outcome) ==
    [job |-> [J.job EXCEPT !.promise = outcome],
     store |-> MapSet(J.store, J.job.id,
                      IF outcome = "resolved" THEN CompletedRec ELSE ErrorRec),
     writes |-> [J.writes EXCEPT !.terminal = IF @ < 2 THEN @ + 1 ELSE @]]

\* resolve(...) / reject(...) of downloadVideo's promise followed by the
\* server's then / catch callback: a promise settles once, and only that
\* settlement runs a callback, which writes the terminal record.
\* J: the job, the store and the job's write history.
ctoSettle(J, outcome) ==
    IF J.job.promise = "pending"
    THEN [job |-> [J.job EXCEPT !.promise = outcome],
          store |-> MapSet(J.store, J.job.id,
                           IF outcome = "resolved" THEN CompletedRec ELSE ErrorRec),
          writes |-> [J.writes EXCEPT !.terminal = IF @ < 2 THEN @ + 1 ELSE @]]
    ELSE J

\* ------------------------------------------------------------------- Init
Init ==
    /\ pc = [r \in Reqs |-> "idle"]
    /\ activeDownloads = EmptyMap
    /\ progressCallbacks = {}
    /\ downloaded = [r \in Reqs |-> 0]
    /\ timeoutTimer = [r \in Reqs |-> "unset"]
    /\ raceWinner = [r \in Reqs |-> "pending"]
    /\ response = [r \in Reqs |-> NoResponse]
    /\ progressData = EmptyMap
    /\ sseClients = EmptyMap
    /\ conn = [c \in Subscribers |-> FreeConn]
    /\ trackerTimers = {}
    /\ cancelAcked = {}
    /\ onProgressCalls = [i \in Ids |-> 0]
    /\ lastCancel = [i \in Ids |-> <<>>]
    /\ statusResponse = NoStatusResponse
    /\ srvPc = [r \in SrvReqs |-> "idle"]
    /\ downloadStatus = EmptyMap
    /\ srvActive = {}
    /\ stream = [r \in SrvReqs |-> NoStream]
    /\ reqClosed = [r \in SrvReqs |-> FALSE]
    /\ srvResponse = [r \in SrvReqs |-> 0]
    /\ srvSse = EmptyMap
    /\ srvConn = [c \in SrvConns |-> FreeSrvConn]
    /\ srvCrashed = FALSE
    /\ cancelAccepted = {}
    /\ lateUpdate = <<>>
    /\ disconnected = {}
    /\ cancelledInitial = {}
    /\ ctoNow = 0
    /\ ctoJob = [r \in CtoReqs |-> NoJob]
    /\ progressStore = EmptyMap
    /\ ctoResponse = [r \in CtoReqs |-> [code |-> 0, downloadId |-> -1]]
    /\ ctoTimers = {}
    /\ ctoWrites = [r \in CtoReqs |-> [terminal |-> 0, late |-> FALSE]]
    /\ swNow = 0
    /\ swMap = EmptyMap
    /\ swEnded = [i \in SweepIds |-> -2]

\* ------------------------------------------------ Part I: route handlers
\* A route without Promise.race: each of the download promise and the timeout
\* answers when it settles.
SettleEach(r, by, ok, ad) ==
    /\ raceWinner' = [raceWinner EXCEPT ![r] = IF @ = "pending" THEN by ELSE @]
    /\ response' = [response EXCEPT ![r] =
          [code |-> IF ok THEN 200 ELSE 400,
           downloadId |-> IF ok THEN r ELSE 0,
           jobStatus |-> IF r \in DOMAIN ad THEN ad[r].status ELSE "none",
           sent |-> @.sent + 1]]

\* The route's try block once Promise.race settles: res.json with the job id
\* when the download won with a result, res.status(400) otherwise. A promise
\* settles once: a later settlement of the race is ignored.
SettleRace(r, by, ok, ad) ==
    IF raceWinner[r] = "pending"
    THEN /\ raceWinner' = [raceWinner EXCEPT ![r] = by]
         /\ response' = [response EXCEPT ![r] =
               [code |-> IF ok THEN 200 ELSE 400,
                downloadId |-> IF ok THEN r ELSE 0,
                jobStatus |-> IF r \in DOMAIN ad THEN ad[r].status ELSE "none",
                sent |-> @.sent + 1]]
    ELSE UNCHANGED <<raceWinner, response>>

\* POST /download/video or /download/audio with a body the validators reject:
\* validateRequest answers 400 and the handler never runs.
PostInvalid(r) ==
    /\ pc[r] = "idle"
    /\ pc' = [pc EXCEPT ![r] = "invalid"]
    /\ response' = [response EXCEPT ![r] =
          [code |-> 400, downloadId |-> 0, jobStatus |-> "none", sent |-> 1]]
    /\ UNCHANGED <<activeDownloads, progressCallbacks, downloaded, timeoutTimer,
                   raceWinner, progressData, sseClients, conn, trackerTimers,
                   cancelAcked, onProgressCalls, lastCancel>>
    /\ UNCHANGED notApiVars

\* POST /download/video with a valid body: downloadVideo runs to its first
\* await (validateUrl), then the route arms the 5 minute timer and awaits
\* the race.
PostDownload(r) ==
    /\ pc[r] = "idle"
    /\ pc' = [pc EXCEPT ![r] = "validating"]
    /\ timeoutTimer' = [timeoutTimer EXCEPT ![r] = "armed"]
    /\ UNCHANGED <<activeDownloads, progressCallbacks, downloaded, raceWinner,
                   response, progressData, sseClients, conn, trackerTimers,
                   cancelAcked, onProgressCalls, lastCancel>>
    /\ UNCHANGED notApiVars

\* validateUrl, validateFormat or getInfo throws: downloadVideo's catch finds
\* no record for the id and rethrows; the route answers 400.
ValidationFails(r) ==
    /\ pc[r] = "validating"
    /\ pc' = [pc EXCEPT ![r] = "rejected"]
    /\ SettleRace(r, "download", FALSE, activeDownloads)
    /\ UNCHANGED <<activeDownloads, progressCallbacks, downloaded, timeoutTimer,
                   progressData, sseClients, conn, trackerTimers,
                   cancelAcked, onProgressCalls, lastCancel>>
    /\ UNCHANGED notApiVars

\* getInfo resolved: downloadVideo stores the record and the callback and
\* calls simulateDownload, whose first updateProgress() runs synchronously
\* (downloaded = 0): it reports progress 0, adds the first chunk and arms
\* the 200 ms timer.
BeginDownload(r) ==
    /\ pc[r] = "validating"
    /\ LET st == TickWrite(NewDownload, 0) IN
         /\ activeDownloads' = MapSet(activeDownloads, r, st)
         /\ SetTracker(updateProgress(Tracker, r, st))
    /\ progressCallbacks' = progressCallbacks \cup {r}
    /\ onProgressCalls' = [onProgressCalls EXCEPT ![r] = @ + 1]
    /\ downloaded' = [downloaded EXCEPT ![r] = 1]
    /\ pc' = [pc EXCEPT ![r] = "ticking"]
    /\ UNCHANGED <<timeoutTimer, raceWinner, response, cancelAcked, lastCancel>>
    /\ UNCHANGED notApiVars

\* The 200 ms timer of simulateDownload fires: updateProgress writes the
\* progress fields and calls onProgress, and only then looks at the status.
\*  - cancelled: reject; downloadVideo's catch marks the record failed.
\*  - all chunks done: resolve; downloadVideo marks the record completed.
\*  - otherwise: add the next chunk and re-arm the timer.
Tick(r) ==
    /\ pc[r] = "ticking"
    /\ LET st == TickWrite(activeDownloads[r], downloaded[r]) IN
         /\ SetTracker(updateProgress(Tracker, r, st))
         /\ onProgressCalls' = [onProgressCalls EXCEPT ![r] = @ + 1]
         /\ IF st.status = "cancelled"
            THEN LET ad == MapSet(activeDownloads, r,
                                  MarkFailed(st, "Download cancelled")) IN
                 /\ activeDownloads' = ad
                 /\ pc' = [pc EXCEPT ![r] = "failed"]
                 /\ SettleRace(r, "download", FALSE, ad)
                 /\ UNCHANGED <<downloaded, progressCallbacks>>
            ELSE IF downloaded[r] >= Chunks
            THEN LET ad == MapSet(activeDownloads, r, MarkCompleted(st)) IN
                 /\ activeDownloads' = ad
                 /\ progressCallbacks' = progressCallbacks \ {r}
                 /\ pc' = [pc EXCEPT ![r] = "completed"]
                 /\ SettleRace(r, "download", TRUE, ad)
                 /\ UNCHANGED downloaded
            ELSE /\ activeDownloads' = MapSet(activeDownloads, r, st)
                 /\ downloaded' = [downloaded EXCEPT ![r] = @ + 1]
                 /\ UNCHANGED <<pc, progressCallbacks, raceWinner, response>>
    /\ UNCHANGED <<timeoutTimer, cancelAcked, lastCancel>>
    /\ UNCHANGED notApiVars

\* The route's 5 minute timer fires: timeoutPromise rejects. If the race is
\* still pending the route answers 400; the download itself is not touched.
Timeout(r) ==
    /\ timeoutTimer[r] = "armed"
    /\ timeoutTimer' = [timeoutTimer EXCEPT ![r] = "fired"]
    /\ SettleRace(r, "timeout", FALSE, activeDownloads)
    /\ UNCHANGED <<pc, activeDownloads, progressCallbacks, downloaded,
                   progressData, sseClients, conn, trackerTimers,
                   cancelAcked, onProgressCalls, lastCancel>>
    /\ UNCHANGED notApiVars

\* Whether the download endpoint has returned id to its client.
IdReturned(id) == \E r \in Reqs : response[r].code = 200 /\ response[r].downloadId = id

\* POST /cancel/:id
Cancel(id) ==
    LET c == cancelDownload(activeDownloads, id)
        entry == [code |-> IF c.ok THEN 200 ELSE 400,
                  status |-> IF id \in DOMAIN c.map THEN c.map[id].status ELSE "none"]
    IN  /\ UNCHANGED notApiVars
        /\ activeDownloads' = c.map
        /\ progressCallbacks' = IF c.ok THEN progressCallbacks \ {id}
                                        ELSE progressCallbacks
        /\ SetTracker(IF c.ok THEN notifyCancellation(Tracker, id) ELSE Tracker)
        /\ cancelAcked' = IF c.ok THEN cancelAcked \cup {id} ELSE cancelAcked
        /\ lastCancel' = [lastCancel EXCEPT ![id] =
                             IF ~IdReturned(id) THEN @
                             ELSE IF Len(@) < 2 THEN Append(@, entry)
                                                ELSE <<@[2], entry>>]
        /\ UNCHANGED <<pc, downloaded, timeoutTimer, raceWinner, response,
                       onProgressCalls>>

\* GET /progress/:id: the SSE handler writes the connected frame and the
\* initial progress (if the id has a record), registers the client under
\* the download id and starts the 30 s heartbeat interval.
SseConnect(c, id) ==
    /\ conn[c].state = "free"
    /\ LET gp == getProgress(activeDownloads, id)
           fr == <<ConnectedFrame>> \o
                 (IF gp # <<>> THEN <<ProgressFrame(gp[1])>> ELSE <<>>)
       IN conn' = [conn EXCEPT ![c] =
             [state |-> "open", id |-> id, frames |-> fr, lateWrite |-> FALSE,
              heartbeat |-> TRUE, beats |-> 0, snapshot |-> gp # <<>>]]
    /\ sseClients' = MapSet(sseClients, id, c)
    /\ UNCHANGED <<pc, activeDownloads, progressCallbacks, downloaded,
                   timeoutTimer, raceWinner, response, progressData,
                   trackerTimers, cancelAcked, onProgressCalls, lastCancel>>
    /\ UNCHANGED notApiVars

\* req 'close' of an SSE connection: both handlers run: removeSSEClient(id)
\* deletes whatever client is registered under the id, res.end(),
\* clearInterval(heartbeat).
SseClose(c) ==
    /\ conn[c].state \in {"open", "ended"}
    /\ conn' = [conn EXCEPT ![c].state = "closed", ![c].heartbeat = FALSE]
    /\ sseClients' = removeSSEClient(Tracker, conn[c].id).sseClients
    /\ UNCHANGED <<pc, activeDownloads, progressCallbacks, downloaded,
                   timeoutTimer, raceWinner, response, progressData,
                   trackerTimers, cancelAcked, onProgressCalls, lastCancel>>
    /\ UNCHANGED notApiVars

\* A delayed deletion of the tracker fires: the 5 s timer of updateProgress
\* deletes the client and the progress data, the 1 s timer of
\* notifyCancellation deletes the client.
TrackerTimerFires(t) ==
    /\ t \in trackerTimers
    /\ trackerTimers' = trackerTimers \ {t}
    /\ sseClients' = MapDelete(sseClients, t.id)
    /\ progressData' = IF t.kind = "progress" THEN MapDelete(progressData, t.id)
                                               ELSE progressData
    /\ UNCHANGED <<pc, activeDownloads, progressCallbacks, downloaded,
                   timeoutTimer, raceWinner, response, conn,
                   cancelAcked, onProgressCalls, lastCancel>>
    /\ UNCHANGED notApiVars

\* An interval callback that writes its frame whatever the state of the
\* response is.
heartbeatAlways(cn) == [cn EXCEPT !.beats = IF @ < MaxBeats THEN @ + 1 ELSE @]

\* The callback of the heartbeat interval on its response:
\* if (res.writableEnded) { clearInterval(heartbeat); return; } res.write(...)
heartbeatTick(cn) ==
    IF cn.state # "open"
    THEN [cn EXCEPT !.heartbeat = FALSE]
    ELSE [cn EXCEPT !.beats = IF @ < MaxBeats THEN @ + 1 ELSE @]

\* The heartbeat interval of an SSE connection fires: it clears itself when
\* the response was ended, and writes a heartbeat frame otherwise.
Heartbeat(c) ==
    /\ conn[c].heartbeat
    /\ conn' = [conn EXCEPT ![c] = heartbeatTick(@)]
    /\ UNCHANGED <<pc, activeDownloads, progressCallbacks, downloaded,
                   timeoutTimer, raceWinner, response, progressData, sseClients,
                   trackerTimers, cancelAcked, onProgressCalls, lastCancel>>
    /\ UNCHANGED notApiVars

\* A sweep with the staleness test inverted: the open clients are removed.
cleanupOpenClients(T, old) ==
    [T EXCEPT !.sseClients =
                  [i \in {j \in DOMAIN @ : T.conn[@[j]].state # "open"} |-> @[i]],
              !.progressData = [i \in DOMAIN @ \ old |-> @[i]]]

\* ProgressTracker.cleanupOldClients, run every minute: clients whose
\* response is missing or ended are removed, and so is progress data created
\* more than 5 minutes ago (old: the ids whose snapshot is that old).
cleanupOldClients(T, old) ==
    [T EXCEPT !.sseClients =
                  [i \in {j \in DOMAIN @ : T.conn[@[j]].state = "open"} |-> @[i]],
              !.progressData = [i \in DOMAIN @ \ old |-> @[i]]]

CleanupInterval(old) ==
    /\ old \subseteq DOMAIN progressData
    /\ SetTracker(cleanupOldClients(Tracker, old))
    /\ UNCHANGED <<pc, activeDownloads, progressCallbacks, downloaded,
                   timeoutTimer, raceWinner, response,
                   cancelAcked, onProgressCalls, lastCancel>>
    /\ UNCHANGED notApiVars

NextApi ==
    \/ \E r \in Reqs : PostInvalid(r)
    \/ \E r \in Reqs : PostDownload(r)
    \/ \E r \in Reqs : ValidationFails(r)
    \/ \E r \in Reqs : BeginDownload(r)
    \/ \E r \in Reqs : Tick(r)
    \/ \E r \in Reqs : Timeout(r)
    \/ \E id \in Ids : Cancel(id)
    \/ \E c \in Conns, id \in Ids : SseConnect(c, id)
    \/ \E c \in Conns : SseClose(c)
    \/ \E t \in trackerTimers : TrackerTimerFires(t)
    \/ \E c \in Conns : Heartbeat(c)
    \/ \E old \in SUBSET Ids : CleanupInterval(old)

Next == NextApi

Spec == Init /\ [][Next]_vars

\* The modular API serving several SSE subscribers: the same handlers, with
\* MaxSubscribers connections and MaxSubReqs download requests.
NextSubscribers ==
    \/ \E r \in SubReqs : PostInvalid(r)
    \/ \E r \in SubReqs : PostDownload(r)
    \/ \E r \in SubReqs : ValidationFails(r)
    \/ \E r \in SubReqs : BeginDownload(r)
    \/ \E r \in SubReqs : Tick(r)
    \/ \E r \in SubReqs : Timeout(r)
    \/ \E id \in SubReqs : Cancel(id)
    \/ \E c \in Subscribers, id \in SubReqs : SseConnect(c, id)
    \/ \E c \in Subscribers : SseClose(c)
    \/ \E t \in trackerTimers : TrackerTimerFires(t)
    \/ \E c \in Subscribers : Heartbeat(c)
    \/ \E old \in SUBSET SubReqs : CleanupInterval(old)

SpecSubscribers == Init /\ [][NextSubscribers]_vars

\* The modular API with two downloads and two SSE connections, reduced to
\* the handlers that register, end and unregister subscribers.
NextPrune ==
    \/ \E r \in Reqs : PostDownload(r)
    \/ \E r \in Reqs : BeginDownload(r)
    \/ \E r \in Reqs : Tick(r)
    \/ \E id \in Ids : Cancel(id)
    \/ \E c \in Subscribers, id \in Ids : SseConnect(c, id)
    \/ \E c \in Subscribers : SseClose(c)
    \/ \E t \in trackerTimers : TrackerTimerFires(t)
    \/ \E old \in SUBSET Ids : CleanupInterval(old)

SpecPrune == Init /\ [][NextPrune]_vars

\* A status route without the not-found test: whatever getProgress returned
\* is sent as data.
statusRouteNoCheck(ad, id) ==
    IF id = BadId
    THEN [id |-> id, code |-> 400, body |-> <<>>]
    ELSE [id |-> id, code |-> 200, body |-> getProgress(ad, id)]

\* GET /progress/:id/status: param('id').isUUID() and validateRequest answer
\* 400 for an id that is not a UUID; the handler answers 404 when getProgress
\* returns null and otherwise 200 with the copy of the record.
statusRoute(ad, id) ==
    IF id = BadId
    THEN [id |-> id, code |-> 400, body |-> <<>>]
    ELSE LET progress == getProgress(ad, id) IN
         IF progress = <<>>
         THEN [id |-> id, code |-> 404, body |-> <<>>]
         ELSE [id |-> id, code |-> 200, body |-> progress]

StatusRequest(id) ==
    /\ statusResponse' = statusRoute(activeDownloads, id)
    /\ UNCHANGED apiVars
    /\ UNCHANGED <<srvVars, ctoVars, swVars>>

\* The modular API without SSE connections: download requests, their
\* runner steps, cancel requests and the status endpoint.
NextStatus ==
    \/ \E r \in Reqs : PostInvalid(r)
    \/ \E r \in Reqs : PostDownload(r)
    \/ \E r \in Reqs : ValidationFails(r)
    \/ \E r \in Reqs : BeginDownload(r)
    \/ \E r \in Reqs : Tick(r)
    \/ \E r \in Reqs : Timeout(r)
    \/ \E id \in Ids : Cancel(id)
    \/ \E id \in StatusIds : StatusRequest(id)

SpecStatus == Init /\ [][NextStatus]_vars

\* --------------------------------------------- Part II: server.js handlers
\* POST /api/download/video with a body the validators or ytdl.validateURL
\* reject: 400, no record is stored.
SrvPostInvalid(r) ==
    /\ ~srvCrashed
    /\ srvPc[r] = "idle"
    /\ srvPc' = [srvPc EXCEPT ![r] = "invalid"]
    /\ srvResponse' = [srvResponse EXCEPT ![r] = 400]
    /\ UNCHANGED <<downloadStatus, srvActive, stream, reqClosed, srvSse,
                   srvConn, srvCrashed, cancelAccepted, lateUpdate, disconnected>>
    /\ UNCHANGED cancelledInitial
    /\ UNCHANGED notSrvVars

\* POST /api/download/video: the record is stored with status initializing,
\* downloadVideo runs to `await ytdl.getInfo(url)`.
SrvPostDownload(r) ==
    /\ ~srvCrashed
    /\ srvPc[r] = "idle"
    /\ srvPc' = [srvPc EXCEPT ![r] = "awaitInfo"]
    /\ downloadStatus' = MapSet(downloadStatus, r, InitialRec)
    /\ UNCHANGED <<srvActive, stream, reqClosed, srvResponse, srvSse, srvConn,
                   srvCrashed, cancelAccepted, lateUpdate, disconnected>>
    /\ UNCHANGED cancelledInitial
    /\ UNCHANGED notSrvVars

\* The route after downloadVideo returned {stream, filename}: headers, the
\* activeDownloads entry, the 'close' and 'error' handlers, stream.pipe(res).
RouteStreams(r, S) ==
    /\ SetSrv([S EXCEPT !.active = @ \cup {r}])
    /\ srvPc' = [srvPc EXCEPT ![r] = "streaming"]
    /\ srvResponse' = [srvResponse EXCEPT ![r] = 200]

\* ytdl.getInfo resolved and a format was chosen: status downloading, the
\* ytdl stream is created with its progress / error / end handlers.
\* known: whether the stream will report a non-zero totalBytes.
InfoOk(r, known) ==
    /\ ~srvCrashed
    /\ srvPc[r] = "awaitInfo"
    /\ LET S1 == UpdateStatusH(Srv, r, [EmptyRec EXCEPT !.status = "downloading",
                                          !.filename = TRUE, !.progress = 0])
           S2 == [S1 EXCEPT !.stream[r] = [NoStream EXCEPT !.kind = "real",
                                              !.state = "live", !.known = known]]
       IN RouteStreams(r, S2)
    /\ UNCHANGED <<reqClosed, srvSse, srvConn, srvCrashed, disconnected>>
    /\ UNCHANGED cancelledInitial
    /\ UNCHANGED notSrvVars

\* ytdl.getInfo threw a signature error: createMockStream starts the demo
\* interval, then status downloading.
InfoSignatureError(r) ==
    /\ ~srvCrashed
    /\ srvPc[r] = "awaitInfo"
    /\ LET S1 == [Srv EXCEPT !.stream[r] = [NoStream EXCEPT !.kind = "mock",
                                               !.state = "live", !.interval = TRUE]]
           S2 == UpdateStatusH(S1, r, [EmptyRec EXCEPT !.status = "downloading",
                                         !.filename = TRUE, !.progress = 0])
       IN RouteStreams(r, S2)
    /\ UNCHANGED <<reqClosed, srvSse, srvConn, srvCrashed, disconnected>>
    /\ UNCHANGED cancelledInitial
    /\ UNCHANGED notSrvVars

\* downloadVideo threw any other error: the route's catch answers 500 and
\* leaves the record as it is.
InfoFails(r) ==
    /\ ~srvCrashed
    /\ srvPc[r] = "awaitInfo"
    /\ srvPc' = [srvPc EXCEPT ![r] = "failed"]
    /\ srvResponse' = [srvResponse EXCEPT ![r] = 500]
    /\ UNCHANGED <<downloadStatus, srvActive, stream, reqClosed, srvSse,
                   srvConn, srvCrashed, cancelAccepted, lateUpdate, disconnected>>
    /\ UNCHANGED cancelledInitial
    /\ UNCHANGED notSrvVars

\* The request named a formatId that the video does not offer: getInfo
\* resolved, ytdl.chooseFormat finds no format and downloadVideo throws; the
\* route's catch answers 500 and leaves the initializing record in the store.
FormatNotFound(r) ==
    /\ ~srvCrashed
    /\ srvPc[r] = "awaitInfo"
    /\ srvPc' = [srvPc EXCEPT ![r] = "formatNotFound"]
    /\ srvResponse' = [srvResponse EXCEPT ![r] = 500]
    /\ UNCHANGED <<downloadStatus, srvActive, stream, reqClosed, srvSse,
                   srvConn, srvCrashed, cancelAccepted, lateUpdate, disconnected>>
    /\ UNCHANGED cancelledInitial
    /\ UNCHANGED notSrvVars

\* stream 'progress': calculateSpeed reads the record (and throws on a missing
\* one), then updateStatus stores progress, downloaded, total and speed.
StreamProgress(r) ==
    /\ ~srvCrashed
    /\ stream[r].kind = "real" /\ stream[r].state = "live"
    /\ stream[r].d < SrvChunks
    /\ IF r \notin DOMAIN downloadStatus
       THEN /\ srvCrashed' = TRUE
            /\ UNCHANGED <<downloadStatus, srvActive, stream, lateUpdate,
                           cancelAccepted>>
       ELSE LET d2 == stream[r].d + 1
                S1 == [Srv EXCEPT !.stream[r].d = d2,
                                  !.ds[r].startTime = TRUE]
            IN /\ SetSrv(UpdateStatusH(S1, r,
                      [EmptyRec EXCEPT !.progress = StreamPercent(d2, stream[r].known)]))
               /\ UNCHANGED srvCrashed
    /\ UNCHANGED <<srvPc, reqClosed, srvResponse, srvSse, srvConn, disconnected>>
    /\ UNCHANGED cancelledInitial
    /\ UNCHANGED notSrvVars

\* stream 'end': status completed, progress 100
StreamEnd(r) ==
    /\ ~srvCrashed
    /\ stream[r].kind = "real" /\ stream[r].state = "live"
    /\ stream[r].d = SrvChunks
    /\ SetSrv(UpdateStatusH([Srv EXCEPT !.stream[r].state = "ended"], r,
                 CompletedUpdate))
    /\ UNCHANGED <<srvPc, reqClosed, srvResponse, srvSse, srvConn, srvCrashed,
                   disconnected>>
    /\ UNCHANGED cancelledInitial
    /\ UNCHANGED notSrvVars

\* stream 'error': downloadVideo's handler stores status error, then the
\* route's handler answers 500 if no header went out and calls cancelDownload.
StreamError(r) ==
    /\ ~srvCrashed
    /\ stream[r].kind = "real" /\ stream[r].state = "live"
    /\ LET S1 == UpdateStatusH([Srv EXCEPT !.stream[r].state = "errored"], r,
                   [EmptyRec EXCEPT !.status = "error", !.error = "stream error"])
       IN SetSrv(srvCancelDownload(S1, r))
    /\ srvResponse' = [srvResponse EXCEPT ![r] = IF stream[r].d = 0 THEN 500 ELSE @]
    /\ UNCHANGED <<srvPc, reqClosed, srvSse, srvConn, srvCrashed, disconnected>>
    /\ UNCHANGED cancelledInitial
    /\ UNCHANGED notSrvVars

\* The 500 ms interval of createMockStream fires.
MockTick(r) ==
    /\ ~srvCrashed
    /\ stream[r].kind = "mock" /\ stream[r].interval
    /\ LET progress == stream[r].mockProgress + MockStep
           S1 == UpdateStatusH([Srv EXCEPT !.stream[r].mockProgress = progress], r,
                   [EmptyRec EXCEPT !.progress = progress])
       IN IF progress >= MockDone
          THEN SetSrv(UpdateStatusH(
                 [S1 EXCEPT !.stream[r].interval = FALSE,
                            !.stream[r].state = IF @ = "live" THEN "ended" ELSE @],
                 r, CompletedUpdate))
          ELSE SetSrv(S1)
    /\ UNCHANGED <<srvPc, reqClosed, srvResponse, srvSse, srvConn, srvCrashed,
                   disconnected>>
    /\ UNCHANGED cancelledInitial
    /\ UNCHANGED notSrvVars

\* The client of the download request goes away. The 'close' handler exists
\* only once the route has registered it (after downloadVideo returned).
ReqClose(r) ==
    /\ ~srvCrashed
    /\ srvPc[r] \in {"awaitInfo", "streaming", "failed", "formatNotFound"}
    /\ ~reqClosed[r]
    /\ reqClosed' = [reqClosed EXCEPT ![r] = TRUE]
    /\ IF srvPc[r] = "streaming"
       THEN /\ SetSrv(srvCancelDownload(Srv, r))
            /\ disconnected' = disconnected \cup {r}
       ELSE UNCHANGED <<downloadStatus, srvActive, stream, lateUpdate,
                        cancelAccepted, disconnected>>
    /\ UNCHANGED <<srvPc, srvResponse, srvSse, srvConn, srvCrashed>>
    /\ UNCHANGED cancelledInitial
    /\ UNCHANGED notSrvVars

\* POST /api/cancel/:id: cancelDownload, a cancelled frame to the SSE client
\* registered under the id, and always the success answer.
SrvCancel(id) ==
    /\ ~srvCrashed
    /\ SetSrv(srvCancelDownload(Srv, id))
    /\ srvConn' = IF id \in DOMAIN srvSse
                  THEN [srvConn EXCEPT ![srvSse[id]].cancelFrames =
                            IF @ < MaxFrames THEN @ + 1 ELSE @]
                  ELSE srvConn
    /\ cancelledInitial' =
          IF id \in DOMAIN downloadStatus
               /\ downloadStatus[id].status = "initializing"
          THEN cancelledInitial \cup {id}
          ELSE cancelledInitial
    /\ UNCHANGED <<srvPc, reqClosed, srvResponse, srvSse, srvCrashed, disconnected>>
    /\ UNCHANGED notSrvVars

\* GET /api/progress/:id: the first frame is the current record or not_found,
\* the keep-alive interval starts, and the response is stored in sseClients
\* under the id.
SrvSseConnect(c, id) ==
    /\ ~srvCrashed
    /\ srvConn[c].state = "free"
    /\ srvConn' = [srvConn EXCEPT ![c] =
          [state |-> "open", id |-> id,
           first |-> IF id \in DOMAIN downloadStatus THEN downloadStatus[id]
                     ELSE [EmptyRec EXCEPT !.status = "not_found", !.id = TRUE],
           afterCancel |-> id \in cancelAccepted, cancelFrames |-> 0,
           keepAlive |-> TRUE, beats |-> 0]]
    /\ srvSse' = MapSet(srvSse, id, c)
    /\ UNCHANGED <<srvPc, downloadStatus, srvActive, stream, reqClosed,
                   srvResponse, srvCrashed, cancelAccepted, lateUpdate, disconnected>>
    /\ UNCHANGED cancelledInitial
    /\ UNCHANGED notSrvVars

\* req 'close' of an SSE connection: clearInterval, sseClients.delete(id)
SrvSseClose(c) ==
    /\ ~srvCrashed
    /\ srvConn[c].state = "open"
    /\ srvConn' = [srvConn EXCEPT ![c].state = "closed", ![c].keepAlive = FALSE]
    /\ srvSse' = MapDelete(srvSse, srvConn[c].id)
    /\ UNCHANGED <<srvPc, downloadStatus, srvActive, stream, reqClosed,
                   srvResponse, srvCrashed, cancelAccepted, lateUpdate, disconnected>>
    /\ UNCHANGED cancelledInitial
    /\ UNCHANGED notSrvVars

\* The keep-alive interval of an SSE connection fires: res.write(': keep-alive')
KeepAlive(c) ==
    /\ ~srvCrashed
    /\ srvConn[c].keepAlive
    /\ srvConn' = [srvConn EXCEPT ![c].beats = IF @ < MaxBeats THEN @ + 1 ELSE @]
    /\ UNCHANGED <<srvPc, downloadStatus, srvActive, stream, reqClosed,
                   srvResponse, srvSse, srvCrashed, cancelAccepted, lateUpdate,
                   disconnected>>
    /\ UNCHANGED cancelledInitial
    /\ UNCHANGED notSrvVars

NextSrv ==
    \/ \E r \in SrvReqs : SrvPostInvalid(r)
    \/ \E r \in SrvReqs : SrvPostDownload(r)
    \/ \E r \in SrvReqs, known \in BOOLEAN : InfoOk(r, known)
    \/ \E r \in SrvReqs : InfoSignatureError(r)
    \/ \E r \in SrvReqs : InfoFails(r)
    \/ \E r \in SrvReqs : FormatNotFound(r)
    \/ \E r \in SrvReqs : StreamProgress(r)
    \/ \E r \in SrvReqs : StreamEnd(r)
    \/ \E r \in SrvReqs : StreamError(r)
    \/ \E r \in SrvReqs : MockTick(r)
    \/ \E r \in SrvReqs : ReqClose(r)
    \/ \E id \in SrvIds : SrvCancel(id)
    \/ \E c \in SrvConns, id \in SrvIds : SrvSseConnect(c, id)
    \/ \E c \in SrvConns : SrvSseClose(c)
    \/ \E c \in SrvConns : KeepAlive(c)

SpecSrv == Init /\ [][NextSrv]_vars

\* Runner events of the streaming server are scheduled by the event loop:
\* getInfo settles, a live stream keeps emitting, the demo interval keeps
\* firing. Client requests (cancel, disconnect, SSE) and stream errors are
\* not forced to happen.
RunnerEvent(r) ==
    \/ \E known \in BOOLEAN : InfoOk(r, known)
    \/ InfoSignatureError(r)
    \/ InfoFails(r)
    \/ FormatNotFound(r)
    \/ StreamProgress(r)
    \/ StreamEnd(r)
    \/ MockTick(r)

SpecSrvFair ==
    Init /\ [][NextSrv]_vars /\ \A r \in SrvReqs : WF_vars(RunnerEvent(r))

\* ------------------------------------------ Part III: src/ctonew handlers
\* POST /api/download/video or /audio without a url: 400, nothing is stored.
CtoPostInvalid(r) ==
    /\ ctoJob[r].state = "none"
    /\ ctoJob' = [ctoJob EXCEPT ![r].state = "invalid"]
    /\ ctoResponse' = [ctoResponse EXCEPT ![r].code = 400]
    /\ UNCHANGED <<ctoNow, progressStore, ctoTimers, ctoWrites>>
    /\ UNCHANGED notCtoVars

\* POST /api/download/video or /audio: the id is Date.now().toString(), the
\* record is stored with status starting, the response carries the id, and
\* downloadVideo spawns yt-dlp. spawned: whether the process could be
\* started; a failed spawn emits 'error' and 'close'.
CtoPost(r, spawned) ==
    /\ ctoJob[r].state = "none"
    /\ ctoNow < MaxCtoNow
    /\ progressStore' = MapSet(progressStore, ctoNow, StartingRec)
    /\ ctoResponse' = [ctoResponse EXCEPT ![r] = [code |-> 200, downloadId |-> ctoNow]]
    /\ ctoJob' = [ctoJob EXCEPT ![r] =
          [state |-> IF spawned THEN "running" ELSE "failed", id |-> ctoNow,
           percent |-> NoPercent, errorPending |-> ~spawned,
           closePending |-> TRUE, promise |-> "pending"]]
    /\ UNCHANGED <<ctoNow, ctoTimers, ctoWrites>>
    /\ UNCHANGED notCtoVars

\* stdout 'data' with one line parseProgress matches: lastProgress is merged
\* and onProgress stores it with status downloading.
CtoData(r, p) ==
    /\ ctoJob[r].state = "running"
    /\ LET last == MergePercent(ctoJob[r].percent, p) IN
       /\ ctoJob' = [ctoJob EXCEPT ![r].percent = last]
       /\ progressStore' = MapSet(progressStore, ctoJob[r].id, ProgressRec(last))
    /\ ctoWrites' = [ctoWrites EXCEPT ![r].late = @ \/ ctoWrites[r].terminal > 0]
    /\ UNCHANGED <<ctoNow, ctoResponse, ctoTimers>>
    /\ UNCHANGED notCtoVars

\* The settlement of r's promise applied to the state.
CtoSettled(r, job, outcome) ==
    LET J == ctoSettle([job |-> job, store |-> progressStore,
                        writes |-> ctoWrites[r]], outcome)
    IN /\ ctoJob' = [ctoJob EXCEPT ![r] = J.job]
       /\ progressStore' = J.store
       /\ ctoWrites' = [ctoWrites EXCEPT ![r] = J.writes]

\* The child process emits 'close': reject on a non-zero code, resolve
\* otherwise. A process that could not be spawned closes with a non-zero code.
CtoClose(r, code) ==
    /\ ctoJob[r].closePending
    /\ ctoJob[r].state = "failed" => code # 0
    /\ CtoSettled(r, [ctoJob[r] EXCEPT !.closePending = FALSE,
                                       !.state = IF @ = "running" THEN "exited" ELSE @],
                  IF code # 0 THEN "rejected" ELSE "resolved")
    /\ UNCHANGED <<ctoNow, ctoResponse, ctoTimers>>
    /\ UNCHANGED notCtoVars

\* The child process emits 'error' (yt-dlp could not be started): reject.
CtoError(r) ==
    /\ ctoJob[r].errorPending
    /\ CtoSettled(r, [ctoJob[r] EXCEPT !.errorPending = FALSE], "rejected")
    /\ UNCHANGED <<ctoNow, ctoResponse, ctoTimers>>
    /\ UNCHANGED notCtoVars

\* GET /api/progress/:id: 404 for a missing record; otherwise the record is
\* sent, and a completed or error record gets a 60 s deletion timer.
CtoPoll(id) ==
    /\ ctoTimers' = IF id \in DOMAIN progressStore
                        /\ progressStore[id].status \in CtoTerminal
                     THEN ctoTimers \cup {[id |-> id, aged |-> FALSE]}
                     ELSE ctoTimers
    /\ UNCHANGED <<ctoNow, ctoJob, progressStore, ctoResponse, ctoWrites>>
    /\ UNCHANGED notCtoVars

\* A deletion timer fires (time has passed since it was set).
CtoTimerFires(t) ==
    /\ t \in ctoTimers
    /\ t.aged
    /\ progressStore' = MapDelete(progressStore, t.id)
    /\ ctoTimers' = ctoTimers \ {t}
    /\ UNCHANGED <<ctoNow, ctoJob, ctoResponse, ctoWrites>>
    /\ UNCHANGED notCtoVars

\* Time passes: Date.now() grows and the pending timers come due.
CtoClock ==
    /\ ctoNow < MaxCtoNow \/ \E t \in ctoTimers : ~t.aged
    /\ ctoNow' = IF ctoNow < MaxCtoNow THEN ctoNow + 1 ELSE ctoNow
    /\ ctoTimers' = {[t EXCEPT !.aged = TRUE] : t \in ctoTimers}
    /\ UNCHANGED <<ctoJob, progressStore, ctoResponse, ctoWrites>>
    /\ UNCHANGED notCtoVars

NextCto ==
    \/ \E r \in CtoReqs : CtoPostInvalid(r)
    \/ \E r \in CtoReqs, spawned \in BOOLEAN : CtoPost(r, spawned)
    \/ \E r \in CtoReqs, p \in CtoPercents \cup {NoPercent} : CtoData(r, p)
    \/ \E r \in CtoReqs, code \in {0, 1} : CtoClose(r, code)
    \/ \E r \in CtoReqs : CtoError(r)
    \/ \E id \in CtoIds : CtoPoll(id)
    \/ \E t \in ctoTimers : CtoTimerFires(t)
    \/ CtoClock

SpecCto == Init /\ [][NextCto]_vars

\* The child process eventually closes (and a failed spawn reports its
\* error), due timers fire and time passes. Client requests are not forced.
CtoRunnerEvent(r) == CtoError(r) \/ \E code \in {0, 1} : CtoClose(r, code)

SpecCtoFair ==
    /\ Init /\ [][NextCto]_vars
    /\ \A r \in CtoReqs : WF_vars(CtoRunnerEvent(r))
    /\ WF_vars(\E t \in ctoTimers : CtoTimerFires(t))
    /\ WF_vars(CtoClock)

\* ------------------------------------------------------ Part IV: sweeps
\* DownloaderService.cleanup(maxAge): deletes the terminal records created
\* more than maxAge ago.
cleanup(ad, now, maxAge) ==
    [i \in {j \in DOMAIN ad : ~(/\ ad[j].status \in Terminal
                                /\ now - ad[j].createdAt > maxAge)} |-> ad[i]]

\* cleanupOldDownloads(downloadsMap, maxAge) of utils/helpers.js: deletes the
\* records created more than maxAge ago.
cleanupOldDownloads(downloadsMap, now, maxAge) ==
    [i \in {j \in DOMAIN downloadsMap :
               ~(now - downloadsMap[j].createdAt > maxAge)} |-> downloadsMap[i]]

\* Time passes.
SwAdvance ==
    /\ swNow < MaxSweepNow
    /\ swNow' = swNow + 1
    /\ UNCHANGED <<swMap, swEnded>>
    /\ UNCHANGED notSwVars

\* downloadVideo stores a record: status downloading, createdAt: new Date()
SwCreate(id) ==
    /\ swEnded[id] = -2
    /\ swMap' = MapSet(swMap, id, [status |-> "downloading", createdAt |-> swNow])
    /\ swEnded' = [swEnded EXCEPT ![id] = -1]
    /\ UNCHANGED swNow
    /\ UNCHANGED notSwVars

\* The download completes, fails or is cancelled.
SwSettle(id, st) ==
    /\ id \in DOMAIN swMap
    /\ swMap[id].status = "downloading"
    /\ swMap' = [swMap EXCEPT ![id].status = st]
    /\ swEnded' = [swEnded EXCEPT ![id] = swNow]
    /\ UNCHANGED swNow
    /\ UNCHANGED notSwVars

SwCleanup(maxAge) ==
    /\ swMap' = cleanup(swMap, swNow, maxAge)
    /\ UNCHANGED <<swNow, swEnded>>
    /\ UNCHANGED notSwVars

SwCleanupOldDownloads(maxAge) ==
    /\ swMap' = cleanupOldDownloads(swMap, swNow, maxAge)
    /\ UNCHANGED <<swNow, swEnded>>
    /\ UNCHANGED notSwVars

\* cleanupOldClients with the map as the tracker's progress data (the
\* snapshots carry the records' status and createdAt).
SwCleanupOldClients ==
    /\ swMap' = cleanupOldClients(
                    [Tracker EXCEPT !.progressData = swMap, !.sseClients = EmptyMap],
                    {j \in DOMAIN swMap : swNow - swMap[j].createdAt > TrackerMaxAge}
                  ).progressData
    /\ UNCHANGED <<swNow, swEnded>>
    /\ UNCHANGED notSwVars

NextSweep ==
    \/ SwAdvance
    \/ \E id \in SweepIds : SwCreate(id)
    \/ \E id \in SweepIds, st \in Terminal : SwSettle(id, st)
    \/ \E maxAge \in SweepAges : SwCleanup(maxAge)
    \/ \E maxAge \in SweepAges : SwCleanupOldDownloads(maxAge)
    \/ SwCleanupOldClients

SpecSweep == Init /\ [][NextSweep]_vars

\* ================================================================ claims

\* C1: once the stored status of a job of the mock DownloaderService is
\* completed, failed or cancelled, no step changes it.
C1_TerminalStatusStable ==
    [][\A id \in Ids :
          StatusOf(id) \in Terminal => StatusOf(id)' = StatusOf(id)]_vars

\* C2: after cancelDownload(id) returned true, no step changes
\* downloaded_bytes or progress of the record, and onProgress is not invoked
\* again for id.
C2_NoProgressAfterCancel ==
    [][\A id \in Ids :
          id \in cancelAcked =>
              /\ onProgressCalls'[id] = onProgressCalls[id]
              /\ id \in DOMAIN activeDownloads'
              /\ activeDownloads'[id].downloaded_bytes =
                     activeDownloads[id].downloaded_bytes
              /\ activeDownloads'[id].progress = activeDownloads[id].progress]_vars

\* C3: an SSE subscriber of the streaming server that connects after a
\* cancellation of its id was accepted reads the cancelled state or
\* not_found, never a record with progress or another status.
C3_CancelledStaysInvisible ==
    \A c \in SrvConns :
        (srvConn[c].state # "free" /\ srvConn[c].afterCancel) =>
            /\ srvConn[c].first.status \in {"cancelled", "not_found"}
            /\ srvConn[c].first.progress = -1

\* C4: an update applied to a record whose status is terminal leaves the
\* whole record as it was.
C4_UpdateAfterTerminalIsNoOp ==
    lateUpdate # <<>> => lateUpdate[1].after = lateUpdate[1].before

\* C5: once the 'close' handler of a download request has run, no runner
\* event (progress, end, error, demo timer tick) of that job occurs.
C5_DisconnectStopsRunner ==
    [][\A r \in SrvReqs :
          r \in disconnected =>
              ~(RunnerEvent(r) \/ StreamError(r))]_vars

\* A job of the streaming server has reached a terminal state: its record
\* shows one, or its cancellation was accepted (cancelDownload removes the
\* record at once).
SrvSettled(r) ==
    \/ r \in cancelAccepted
    \/ r \in DOMAIN downloadStatus /\ downloadStatus[r].status \in SrvTerminal

\* C6: every job created in the store eventually reaches a terminal state.
C6_EveryJobTerminates ==
    \A r \in SrvReqs : (r \in DOMAIN downloadStatus) ~> SrvSettled(r)

\* C7: when the 5 minute timeout wins the race, the job's record is terminal:
\* status failed with the timeout error.
C7_TimeoutFailsJob ==
    \A r \in Reqs :
        (raceWinner[r] = "timeout" /\ r \in DOMAIN activeDownloads) =>
            /\ activeDownloads[r].status = "failed"
            /\ activeDownloads[r].error = "Download timeout exceeded"

\* C8: the response that carries the job id is sent while the job is not
\* yet terminal.
C8_ResponseBeforeTerminal ==
    \A r \in Reqs :
        response[r].code = 200 => response[r].jobStatus \notin Terminal

\* C9: a cancel request for an id that a download endpoint returned is
\* answered with success, and a second one leaves the same state and is
\* answered with success again.
C9_CancelIdempotentSuccess ==
    \A id \in Ids :
        /\ \A k \in DOMAIN lastCancel[id] : lastCancel[id][k].code = 200
        /\ Len(lastCancel[id]) = 2 =>
              lastCancel[id][1].status = lastCancel[id][2].status

\* C10: POST /api/cancel/:id for a job whose stored status is completed or
\* error leaves the record unchanged and retrievable.
C10_CancelTerminalIsNoOp ==
    [][\A id \in SrvIds :
          (/\ id \in DOMAIN downloadStatus
           /\ downloadStatus[id].status \in {"completed", "error"}
           /\ SrvCancel(id)) =>
              /\ id \in DOMAIN downloadStatus'
              /\ downloadStatus'[id] = downloadStatus[id]]_vars

\* C11: after POST /api/cancel/:id was answered with success for a job whose
\* record had status initializing, the job never has status downloading, no
\* stream is registered for it in activeDownloads and no progress is stored.
C11_CancelInitialStopsRunner ==
    \A id \in cancelledInitial :
        /\ id \notin srvActive
        /\ id \in DOMAIN downloadStatus =>
              /\ downloadStatus[id].status # "downloading"
              /\ downloadStatus[id].progress = -1

\* A step taken by the runner of request r of the yt-dlp server.
CtoRunnerStep(r) ==
    \/ \E p \in CtoPercents \cup {NoPercent} : CtoData(r, p)
    \/ CtoRunnerEvent(r)

\* C12: the progress stored for a job never decreases under the reports of
\* its runner (progress lines, completion, failure), and stays fixed once the
\* job is terminal.
C12_ProgressMonotonic ==
    [][\A r \in CtoReqs :
          (/\ CtoRunnerStep(r)
           /\ ctoJob[r].id \in DOMAIN progressStore
           /\ ctoJob[r].id \in DOMAIN progressStore') =>
              LET old == progressStore[ctoJob[r].id]
                  new == progressStore'[ctoJob[r].id]
              IN IF old.status \in CtoTerminal
                 THEN new.progress = old.progress
                 ELSE new.progress >= old.progress]_vars

\* C13: in every store, a job whose stored status is completed has stored
\* progress 100, whatever progress its runner reported last.
C13_CompletedMeansHundred ==
    /\ \A id \in DOMAIN activeDownloads :
          activeDownloads[id].status = "completed" => activeDownloads[id].progress = 100
    /\ \A id \in DOMAIN downloadStatus :
          downloadStatus[id].status = "completed" => downloadStatus[id].progress = 100
    /\ \A id \in DOMAIN progressStore :
          progressStore[id].status = "completed" => progressStore[id].progress = 100

\* A stream whose total size was unknown (every progress report stored 0)
\* has ended and its record is completed.
C13_Witness ==
    \E r \in SrvReqs :
        /\ r \in DOMAIN downloadStatus
        /\ downloadStatus[r].status = "completed"
        /\ stream[r].kind = "real" /\ ~stream[r].known /\ stream[r].d > 0

\* The state of the job state machine a stored status stands for.
Phase(status) ==
    CASE status \in {"starting", "initializing"} -> "pending"
      [] status = "downloading" -> "running"
      [] status \in {"error", "failed"} -> "failed"
      [] OTHER -> status

StateMachineEdges ==
    {<<"pending", "running">>, <<"running", "completed">>,
     <<"running", "failed">>, <<"pending", "cancelled">>,
     <<"running", "cancelled">>}

\* C14: every change of a job's stored status follows an edge of
\* pending -> running -> {completed, failed, cancelled} or pending -> cancelled.
C14_StatusFollowsStateMachine ==
    [][/\ \A id \in CtoIds :
            (/\ id \in DOMAIN progressStore /\ id \in DOMAIN progressStore'
             /\ progressStore'[id].status # progressStore[id].status) =>
                <<Phase(progressStore[id].status),
                  Phase(progressStore'[id].status)>> \in StateMachineEdges
       /\ \A id \in SrvIds :
            (/\ id \in DOMAIN downloadStatus /\ id \in DOMAIN downloadStatus'
             /\ downloadStatus'[id].status # downloadStatus[id].status) =>
                <<Phase(downloadStatus[id].status),
                  Phase(downloadStatus'[id].status)>> \in StateMachineEdges]_vars

\* C15: for each job of the yt-dlp server, whatever the order of the child
\* process's 'error' and 'close' events, the callbacks of its promise write
\* at most one terminal record, exactly one once the promise has settled, and
\* its onProgress writes nothing after that.
C15_OneTerminalWrite ==
    \A r \in CtoReqs :
        /\ ctoWrites[r].terminal <= 1
        /\ ~ctoWrites[r].late
        /\ ctoJob[r].promise \in {"resolved", "rejected"} <=> ctoWrites[r].terminal = 1

\* yt-dlp could not be started and both 'error' and 'close' have fired.
C15_Witness ==
    \E r \in CtoReqs :
        /\ ctoJob[r].state = "failed"
        /\ ~ctoJob[r].errorPending /\ ~ctoJob[r].closePending
        /\ ctoWrites[r].terminal = 1

\* C16: when a download's stream reports an error, the job's record is then
\* stored with status error and a non-empty error message, for pollers and
\* new SSE subscribers to read.
C16_StreamErrorLeavesFailedRecord ==
    [][\A r \in SrvReqs :
          StreamError(r) =>
              /\ r \in DOMAIN downloadStatus'
              /\ downloadStatus'[r].status = "error"
              /\ downloadStatus'[r].error # ""]_vars

\* C17: every job of the yt-dlp server that reaches a terminal state is
\* eventually removed from progressStore, without any further client request.
C17_TerminalJobsAreRemoved ==
    \A id \in CtoIds :
        (id \in DOMAIN progressStore /\ progressStore[id].status \in CtoTerminal)
            ~> (id \notin DOMAIN progressStore)

\* C18: no sweep (DownloaderService.cleanup, cleanupOldDownloads,
\* cleanupOldClients) removes a record whose status is not terminal.
C18_SweepKeepsLiveJobs ==
    [][\A id \in SweepIds :
          (id \in DOMAIN swMap /\ swMap[id].status \notin Terminal) =>
              id \in DOMAIN swMap']_vars

\* DownloaderService.cleanup alone keeps every record that is not terminal.
CleanupKeepsLiveJobs ==
    [][\A id \in SweepIds, maxAge \in SweepAges :
          (SwCleanup(maxAge) /\ id \in DOMAIN swMap
             /\ swMap[id].status \notin Terminal) => id \in DOMAIN swMap']_vars

\* C19: a job that has just reached a terminal state is still retrievable:
\* after a cancel request found a live record (and so cancelled the job), the
\* record is in the store with status cancelled.
C19_JustCancelledIsRetrievable ==
    [][\A id \in SrvIds :
          (/\ SrvCancel(id)
           /\ id \in DOMAIN downloadStatus
           /\ downloadStatus[id].status \notin SrvTerminal) =>
              /\ id \in DOMAIN downloadStatus'
              /\ downloadStatus'[id].status = "cancelled"]_vars

\* DownloaderService.cleanup(maxAge) removes only records that have been
\* terminal for longer than maxAge.
CleanupRespectsRetention ==
    [][\A id \in SweepIds, maxAge \in SweepAges :
          (SwCleanup(maxAge) /\ id \in DOMAIN swMap /\ id \notin DOMAIN swMap') =>
              swNow - swEnded[id] > maxAge]_vars

\* C20: when the 'close' handler of one SSE connection runs, every other
\* open connection that is registered with the tracker stays registered (and
\* so keeps receiving the updates of its job).
C20_SubscriberIsolation ==
    [][\A c, other \in Subscribers :
          (/\ c # other
           /\ SseClose(c)
           /\ conn[other].state = "open"
           /\ conn[other].id \in DOMAIN sseClients
           /\ sseClients[conn[other].id] = other) =>
              /\ conn[other].id \in DOMAIN sseClients'
              /\ sseClients'[conn[other].id] = other]_vars

\* C21: each call of ProgressTracker.updateProgress for a job writes the
\* event to every SSE connection that is open for that job, not only to the
\* one that registered last.
C21_PublishFansOut ==
    [][\A id \in SubReqs, c \in Subscribers :
          (/\ onProgressCalls'[id] # onProgressCalls[id]
           /\ conn[c].state = "open"
           /\ conn[c].id = id) =>
              Len(conn'[c].frames) = Len(conn[c].frames) + 1]_vars

\* What the streaming server has written to an SSE connection reflects the
\* stored record of its job: the first frame, or the cancelled frame.
SrvConnUpToDate(c) ==
    LET id == srvConn[c].id IN
    \/ id \notin DOMAIN downloadStatus
    \/ srvConn[c].first = downloadStatus[id]
    \/ srvConn[c].cancelFrames > 0 /\ downloadStatus[id].status = "cancelled"

\* C22: in the streaming server, an update of a job's record that is stored
\* while a subscriber is connected is eventually written to the subscriber's
\* connection, unless the subscriber disconnects.
C22_StoredUpdatesReachSubscriber ==
    \A c \in SrvConns :
        (srvConn[c].state = "open" /\ ~SrvConnUpToDate(c))
            ~> (srvConn[c].state # "open" \/ SrvConnUpToDate(c))

\* The steps of a download of the modular API that the event loop schedules:
\* downloadVideo's continuations and the 200 ms timer of simulateDownload.
ApiRunnerEvent(r) ==
    \/ ValidationFails(r)
    \/ BeginDownload(r)
    \/ Tick(r)

SpecSubscribersFair ==
    Init /\ [][NextSubscribers]_vars /\ \A r \in SubReqs : WF_vars(ApiRunnerEvent(r))

\* The connection has received an event that carries the given status.
HasFinalEvent(c, status) ==
    \E i \in 1..Len(conn[c].frames) :
        /\ conn[c].frames[i].type = "progress"
        /\ conn[c].frames[i].status = status

\* C23: when a job with an open, registered SSE subscriber reaches a terminal
\* status (in particular when downloadVideo completes), the subscriber
\* eventually receives an event that carries that status, unless it
\* disconnects first.
C23_SubscriberGetsFinalEvent ==
    \A c \in Subscribers, id \in SubReqs :
        (/\ conn[c].state = "open"
         /\ conn[c].id = id
         /\ id \in DOMAIN sseClients
         /\ sseClients[id] = c
         /\ StatusOf(id) = "completed")
            ~> (conn[c].state = "closed" \/ HasFinalEvent(c, "completed"))

\* C24: after a job has reached a terminal status, every SSE connection that
\* is open for it is eventually ended by the server (res.end), without the
\* client having to disconnect.
C24_ServerEndsStreamAfterTerminal ==
    \A c \in Subscribers, id \in SubReqs :
        (/\ conn[c].state = "open"
         /\ conn[c].id = id
         /\ StatusOf(id) \in Terminal)
            ~> (conn[c].state # "open")

\* C25: an open SSE connection has its heartbeat interval running and every
\* tick writes a heartbeat frame to it; the close handler clears the
\* interval, and a tick on a response that was ended or closed writes
\* nothing.
C25_HeartbeatFollowsConnection ==
    /\ [](\A c \in Subscribers :
              conn[c].state = "open" =>
                  /\ conn[c].heartbeat
                  /\ heartbeatTick(conn[c]).beats =
                         IF conn[c].beats < MaxBeats THEN conn[c].beats + 1
                                                     ELSE MaxBeats)
    /\ [](\A c \in Subscribers : conn[c].state = "closed" => ~conn[c].heartbeat)
    /\ [][\A c \in Subscribers :
              conn[c].state # "open" => conn'[c].beats = conn[c].beats]_vars

\* one connection was ended by the server and its next tick cleared the
\* interval without writing; another, open, has received a heartbeat
C25_Witness ==
    \E c, d \in Subscribers :
        /\ conn[c].state = "ended" /\ ~conn[c].heartbeat /\ conn[c].beats = 0
        /\ conn[d].state = "open" /\ conn[d].beats > 0

\* src/server.js: the keep-alive interval of an SSE connection runs while the
\* connection is open and is cleared by the close handler.
KeepAliveFollowsConnection ==
    \A c \in SrvConns :
        /\ srvConn[c].state = "open" => srvConn[c].keepAlive
        /\ srvConn[c].state # "open" => ~srvConn[c].keepAlive

\* C26: the id given to a new job of the yt-dlp server differs from the id
\* of every job created before, also for requests that arrive in the same
\* millisecond, and creating the job does not overwrite a stored record.
C26_JobIdsAreUnique ==
    [][\A r \in CtoReqs :
          (ctoJob[r].state = "none" /\ ctoJob'[r].id \in CtoIds) =>
              /\ ctoJob'[r].id \notin DOMAIN progressStore
              /\ \A other \in CtoReqs \ {r} :
                     ctoJob[other].id # ctoJob'[r].id]_vars

\* C27: a download request of the streaming server that fails input
\* validation (missing or malformed url, missing or unsupported formatId) is
\* answered 400 and leaves no record in the store.
C27_InvalidRequestLeavesNoTrace ==
    \A r \in SrvReqs :
        srvPc[r] \in {"invalid", "formatNotFound"} =>
            /\ srvResponse[r] = 400
            /\ r \notin DOMAIN downloadStatus

\* C28: an update or a cancel addressed to an id that has no record leaves
\* the store unchanged; only the download request that creates the job adds
\* its record.
C28_UnknownIdIsNotCreated ==
    [][\A id \in SrvIds :
          (id \notin DOMAIN downloadStatus /\ id \in DOMAIN downloadStatus') =>
              srvPc[id] = "idle"]_vars

\* C29 as stated: the status endpoint answers 200 with a snapshot equal to
\* the stored record when the id is in the store and 404 for every other id,
\* and does not modify the store.
C29_StatusIs200Or404 ==
    [][\A id \in StatusIds :
          StatusRequest(id) =>
              /\ activeDownloads' = activeDownloads
              /\ IF id \in DOMAIN activeDownloads
                 THEN /\ statusResponse'.code = 200
                      /\ statusResponse'.body = <<activeDownloads[id]>>
                 ELSE statusResponse'.code = 404]_vars

\* C29 amended: for an id that is a UUID the status endpoint answers 200 with
\* a snapshot equal to the stored record exactly when the id is in the store
\* and 404 otherwise; an id that is not a UUID is answered 400; the store is
\* never modified; and an id returned by the download endpoint is answered 200.
C29_StatusEndpoint ==
    /\ [][\A id \in StatusIds :
              StatusRequest(id) =>
                  /\ activeDownloads' = activeDownloads
                  /\ statusResponse'.id = id
                  /\ id = BadId => statusResponse'.code = 400
                  /\ (id # BadId /\ id \in DOMAIN activeDownloads) =>
                         /\ statusResponse'.code = 200
                         /\ statusResponse'.body = <<activeDownloads[id]>>
                  /\ (id # BadId /\ id \notin DOMAIN activeDownloads) =>
                         statusResponse'.code = 404]_vars
    /\ [](\A id \in Ids :
              IdReturned(id) => statusRoute(activeDownloads, id).code = 200)

\* the status of an id that the download endpoint returned was asked for and
\* answered with the stored record
C29_Witness ==
    /\ statusResponse.code = 200
    /\ IdReturned(statusResponse.id)
    /\ statusResponse.body = <<activeDownloads[statusResponse.id]>>

\* C30: a progress event of a transfer whose total size is unknown leaves
\* the stored percentage absent (never 0); when the total is known the
\* stored percentage is downloadedBytes / totalBytes * 100, to the nearest
\* integer.
C30_UnknownTotalHasNoPercentage ==
    [][\A r \in SrvReqs :
          (/\ stream[r].kind = "real"
           /\ stream'[r].d # stream[r].d
           /\ r \in DOMAIN downloadStatus') =>
              LET p == downloadStatus'[r].progress
                  e == p * SrvChunks - 100 * stream'[r].d
              IN  IF stream[r].known
                  THEN 2 * e <= SrvChunks /\ -2 * e <= SrvChunks
                  ELSE p = -1]_vars

\* C31: in every reachable state a job record carries a result filename only
\* if its status is completed, and an error message only if its status is
\* failed.
C31_ResultFieldsMatchStatus ==
    \A id \in DOMAIN downloadStatus :
        /\ downloadStatus[id].filename => downloadStatus[id].status = "completed"
        /\ downloadStatus[id].error # "" => downloadStatus[id].status = "failed"

\* C32: ProgressTracker.cleanupOldClients prunes exactly the stale
\* subscribers: after a run no registered client has an ended response, and
\* every client whose response was open before the run is still registered.
C32_SweepPrunesExactlyStale ==
    [][(\E old \in SUBSET Ids : CleanupInterval(old)) =>
          /\ \A id \in DOMAIN sseClients' : conn[sseClients'[id]].state = "open"
          /\ \A id \in DOMAIN sseClients :
                 conn[sseClients[id]].state = "open" =>
                     /\ id \in DOMAIN sseClients'
                     /\ sseClients'[id] = sseClients[id]]_vars

\* the sweep has removed a client whose response notifyCancellation ended
\* (its 1 s removal timer is still pending and its download has not ticked
\* since), while an open client of another download is still registered
C32_Witness ==
    \E c, d \in Subscribers :
        /\ conn[c].state = "ended"
        /\ conn[c].id \notin DOMAIN sseClients
        /\ [id |-> conn[c].id, kind |-> "client"] \in trackerTimers
        /\ pc[conn[c].id] = "ticking"
        /\ conn[d].state = "open"
        /\ conn[d].id \in DOMAIN sseClients
        /\ sseClients[conn[d].id] = d

\* C33: a subscriber that connects to the SSE endpoint of an existing job
\* first receives the connected event and the job's current snapshot, and
\* afterwards, while its connection is open, every update published for the
\* job is appended to what it has received.
C33_NoUpdateLostAfterConnect ==
    [][\A c \in Subscribers, id \in Ids :
          /\ (SseConnect(c, id) /\ id \in DOMAIN activeDownloads) =>
                 conn'[c].frames =
                     <<ConnectedFrame, ProgressFrame(activeDownloads[id])>>
          /\ (/\ conn[c].state = "open"
              /\ conn[c].id = id
              /\ conn[c].snapshot
              /\ onProgressCalls'[id] # onProgressCalls[id]) =>
                 conn'[c].frames =
                     Append(conn[c].frames, ProgressFrame(progressData'[id]))]_vars

\* C34: once the complete or error handler of an SSE client has called
\* res.end(), ProgressTracker never invokes a handler of that client again:
\* no event is written to a response that the server has ended.
C34_NoWriteAfterEnd ==
    \A c \in Subscribers : conn[c].state = "ended" => ~conn[c].lateWrite

\* C35: ProgressTracker never unregisters a subscriber whose connection is
\* still open without ending it: a delayed deletion scheduled by
\* updateProgress or notifyCancellation for a download id does not remove a
\* client that registered for that id after the timer was scheduled.
C35_TimersSpareOpenSubscribers ==
    [][\A t \in trackerTimers, c \in Subscribers :
          (/\ TrackerTimerFires(t)
           /\ t.id \in DOMAIN sseClients
           /\ sseClients[t.id] = c
           /\ conn[c].state = "open") =>
              \/ conn'[c].state # "open"
              \/ (t.id \in DOMAIN sseClients' /\ sseClients'[t.id] = c)]_vars

\* C36: once downloadVideo has settled for a job and no runner tick is
\* pending, the status held for the id in ProgressTracker.progressData, if
\* present, equals the status held in DownloaderService.activeDownloads.
C36_StoresAgreeAfterSettle ==
    \A r \in Reqs :
        (pc[r] \in {"completed", "failed"} /\ r \in DOMAIN progressData) =>
            progressData[r].status = activeDownloads[r].status

\* C37: in the streaming server calculateSpeed is only ever called for an id
\* that has an entry in downloadStatus: no 'progress' event handler runs
\* against a missing record and throws.
C37_ProgressNeverHitsMissingRecord ==
    /\ ~srvCrashed
    /\ \A r \in SrvReqs :
           (stream[r].kind = "real" /\ stream[r].state = "live") =>
               r \in DOMAIN downloadStatus

\* progress events ran on a stream, then cancelDownload deleted the record
\* and destroyed the stream
C37_Witness ==
    \E r \in SrvReqs :
        /\ stream[r].kind = "real"
        /\ stream[r].state = "destroyed"
        /\ stream[r].d > 0
        /\ r \notin DOMAIN downloadStatus
        /\ r \in cancelAccepted

\* C38: every download request of the modular API gets exactly one HTTP
\* response: the first of completion, failure and the 5 minute timeout sends
\* it, and a later completion or timeout of the same request sends nothing.
C38_ExactlyOneResponse ==
    /\ [](\A r \in Reqs :
              /\ response[r].sent <= 1
              /\ (\/ pc[r] \in {"invalid", "rejected", "completed", "failed"}
                  \/ timeoutTimer[r] = "fired") => response[r].sent = 1)
    /\ [][\A r \in Reqs :
              response[r].sent = 1 => response'[r] = response[r]]_vars

\* the timeout answered a request whose download completed afterwards
C38_Witness ==
    \E r \in Reqs :
        /\ raceWinner[r] = "timeout"
        /\ pc[r] = "completed"
        /\ response[r].sent = 1
        /\ response[r].code = 400

====
